---------------------------- MODULE Spec2Model ----------------------------
(***************************************************************************)
(* Model of the notebook Groupby_basics.ipynb: the example DataFrame df    *)
(* and the polars calls the code cells make on it (group_by / all / agg /  *)
(* over / filter / join).  Every action is one code cell.                  *)
(*                                                                         *)
(* Conventions                                                             *)
(*  - A DataFrame is a sequence of rows; a row is a record of its columns. *)
(*    Row positions are 1..N here (polars counts 0..N-1).                  *)
(*  - A number is a record [dt, num, den]: its polars dtype and its value  *)
(*    num/den in lowest terms.  i64 and u32 values have den = 1; f64       *)
(*    values are kept exact (binary rounding is not modelled; the data2    *)
(*    values are those of the notebook, on which the comparison with 0.3   *)
(*    gives the same answer exactly and in f64 for the group sizes used).  *)
(*  - df.group_by('key') is called without maintain_order, so the order of *)
(*    the groups is not determined by the data: the notebook's own outputs *)
(*    show B,A,C (group.all()), A,B,C (iteration, agg) and A,C,B (agg) for *)
(*    the same df.  A grouping therefore picks any order of the keys.      *)
(***************************************************************************)
EXTENDS Integers, Sequences, FiniteSets, TLC

VARIABLES df, cell, spec, grp, kept, out

vars == <<df, cell, spec, grp, kept, out>>

\* Largest number of rows of a generated table.
MaxRows == 3

---------------------------------------------------------------------------
(* Numbers *)

RECURSIVE GCD(_, _)
GCD(a, b) == IF b = 0 THEN a ELSE GCD(b, a % b)

Abs(n) == IF n < 0 THEN -n ELSE n

Num(dt, n, d) ==
    LET g == GCD(Abs(n), d)
    IN  IF g = 0 THEN [dt |-> dt, num |-> 0, den |-> 1]
        ELSE [dt |-> dt, num |-> n \div g, den |-> d \div g]

I64(n) == Num("i64", n, 1)
U32(n) == Num("u32", n, 1)
F64(n, d) == Num("f64", n, d)

Add(a, b) == Num(a.dt, a.num * b.den + b.num * a.den, a.den * b.den)

Less(a, b) == a.num * b.den < b.num * a.den

\* The value of a number, whatever its dtype (5 as i64 = 5.0 as f64).
SameValue(a, b) == a.num * b.den = b.num * a.den

---------------------------------------------------------------------------
(* The example DataFrame *)

Row(k, d1, d2) == [key |-> k, data1 |-> I64(d1), data2 |-> F64(d2, 10)]

\* key_list, data1_list, data2_list zipped: df of the notebook.
ExampleDf ==
    << Row("A", 2, 1), Row("B", 4, 2), Row("C", 6, 3),
       Row("A", 8, 4), Row("B", 10, 5), Row("C", 12, 6) >>

\* The rows a generated table is made of: the example's rows of keys A and B.
GenRows == {ExampleDf[i] : i \in {1, 2, 4, 5}}

\* The tables df ranges over: the example, and every table of at most MaxRows
\* rows drawn (with repetition, in any order) from GenRows.
Tables == UNION {[1..n -> GenRows] : n \in 0..MaxRows} \cup {ExampleDf}

---------------------------------------------------------------------------
(* group_by *)

Indices(tbl) == [i \in 1..Len(tbl) |-> i]

KeySet(tbl) == {tbl[i].key : i \in 1..Len(tbl)}

\* Every order of a set of keys, as sequences without repetition.
Orders(S) ==
    {o \in [1..Cardinality(S) -> S] : \A i, j \in DOMAIN o : i # j => o[i] # o[j]}

\* Mutation of GroupBy: equal keys are never merged, every row is its own group.
GroupBy_PerRow(tbl, ord) ==
    [i \in 1..Len(tbl) |-> [key |-> tbl[i].key, idx |-> <<i>>]]

\* Mutation of GroupBy: the rows of a group are listed last row first.
GroupBy_ReversedRows(tbl, ord) ==
    [j \in 1..Len(ord) |->
        [key |-> ord[j],
         idx |-> LET up == SelectSeq(Indices(tbl), LAMBDA i : tbl[i].key = ord[j])
                 IN  [n \in 1..Len(up) |-> up[Len(up) + 1 - n]]]]

\* The groups of tbl by 'key', listed in the order ord; the rows of a group
\* are in table order.
GroupBy(tbl, ord) ==
    [j \in 1..Len(ord) |->
        [key |-> ord[j],
         idx |-> SelectSeq(Indices(tbl), LAMBDA i : tbl[i].key = ord[j])]]

\* Mutation of Take: the whole column, whatever the rows asked for.
Take_WholeColumn(tbl, c, idx) == [n \in 1..Len(tbl) |-> tbl[n][c]]

\* The values of column c at the rows idx.
Take(tbl, c, idx) == [n \in 1..Len(idx) |-> tbl[idx[n]][c]]

\* Mutation of All: one row per row of the table instead of one per group.
All_Exploded(tbl, g) ==
    [i \in 1..Len(tbl) |->
        [key |-> tbl[i].key, data1 |-> <<tbl[i].data1>>, data2 |-> <<tbl[i].data2>>]]

\* GroupBy.all(): one row per group, each other column as the list of its values.
All(tbl, g) ==
    [j \in 1..Len(g) |->
        [key |-> g[j].key,
         data1 |-> Take(tbl, "data1", g[j].idx),
         data2 |-> Take(tbl, "data2", g[j].idx)]]

\* Iterating a GroupBy: (name, data) pairs, data the sub-frame of the group.
Iter(tbl, g) ==
    [j \in 1..Len(g) |->
        [name |-> <<g[j].key>>,
         data |-> [n \in 1..Len(g[j].idx) |-> tbl[g[j].idx[n]]]]]

---------------------------------------------------------------------------
(* Expressions: pl.col(c).fn().alias(name) *)

Fns == {"sum", "mean", "min", "max", "count"}

DataCols == {"data1", "data2"}

Expr(c, f, n) == [col |-> c, fn |-> f, name |-> n]

RECURSIVE SeqSum(_)
SeqSum(vals) ==
    IF Len(vals) = 1 THEN vals[1]
    ELSE Add(SeqSum(SubSeq(vals, 1, Len(vals) - 1)), vals[Len(vals)])

RECURSIVE SeqMin(_)
SeqMin(vals) ==
    IF Len(vals) = 1 THEN vals[1]
    ELSE LET m == SeqMin(SubSeq(vals, 1, Len(vals) - 1))
         IN  IF Less(vals[Len(vals)], m) THEN vals[Len(vals)] ELSE m

RECURSIVE SeqMax(_)
SeqMax(vals) ==
    IF Len(vals) = 1 THEN vals[1]
    ELSE LET m == SeqMax(SubSeq(vals, 1, Len(vals) - 1))
         IN  IF Less(m, vals[Len(vals)]) THEN vals[Len(vals)] ELSE m

\* Mutation of Reduce: mean dispatches to the sum.
Reduce_MeanAsSum(f, vals) ==
    CASE f \in {"sum", "mean"} -> SeqSum(vals)
      [] f = "min"   -> SeqMin(vals)
      [] f = "max"   -> SeqMax(vals)
      [] f = "count" -> U32(Len(vals))

\* Mutation of Reduce: count is one short.
Reduce_CountOffByOne(f, vals) ==
    CASE f = "sum"   -> SeqSum(vals)
      [] f = "mean"  -> LET s == SeqSum(vals) IN F64(s.num, s.den * Len(vals))
      [] f = "min"   -> SeqMin(vals)
      [] f = "max"   -> SeqMax(vals)
      [] f = "count" -> U32(Len(vals) - 1)

\* sum keeps the dtype, mean is f64, count is u32, min and max are elements.
Reduce(f, vals) ==
    CASE f = "sum"   -> SeqSum(vals)
      [] f = "mean"  -> LET s == SeqSum(vals) IN F64(s.num, s.den * Len(vals))
      [] f = "min"   -> SeqMin(vals)
      [] f = "max"   -> SeqMax(vals)
      [] f = "count" -> U32(Len(vals))

\* Mutation of Agg: one row per row of the table (the reduction of its group).
Agg_PerRow(tbl, g, sp) ==
    [i \in 1..Len(tbl) |->
        [key |-> tbl[i].key,
         vals |-> [e \in 1..Len(sp) |->
                     Reduce(sp[e].fn,
                            Take(tbl, sp[e].col,
                                 SelectSeq(Indices(tbl), LAMBDA x : tbl[x].key = tbl[i].key)))]]]

\* Mutation of Agg: the rows come out in the reverse of the groups' order.
Agg_Reversed(tbl, g, sp) ==
    [j \in 1..Len(g) |->
        [key |-> g[Len(g) + 1 - j].key,
         vals |-> [e \in 1..Len(sp) |->
                     Reduce(sp[e].fn, Take(tbl, sp[e].col, g[Len(g) + 1 - j].idx))]]]

\* Mutation of Agg: a table without rows still gives one row, of zeros.
Agg_TotalRowWhenEmpty(tbl, g, sp) ==
    IF Len(g) = 0
    THEN << [key |-> "", vals |-> [e \in 1..Len(sp) |-> I64(0)]] >>
    ELSE [j \in 1..Len(g) |->
            [key |-> g[j].key,
             vals |-> [e \in 1..Len(sp) |->
                         Reduce(sp[e].fn, Take(tbl, sp[e].col, g[j].idx))]]]

\* GroupBy.agg(*exprs): one row per group, in the order of the groups; vals[e]
\* is the column named sp[e].name.
Agg(tbl, g, sp) ==
    [j \in 1..Len(g) |->
        [key |-> g[j].key,
         vals |-> [e \in 1..Len(sp) |->
                     Reduce(sp[e].fn, Take(tbl, sp[e].col, g[j].idx))]]]

\* df.group_by('key').agg(pl.col('data1').sum())
SpecSum == << Expr("data1", "sum", "data1") >>

\* df.group_by('key').agg(pl.col('data1').sum().alias('data1sum'), pl.col('data2').mean())
SpecSumMean == << Expr("data1", "sum", "data1sum"), Expr("data2", "mean", "data2") >>

\* The exercise: minimum and maximum of data2 at once.
SpecMinMax == << Expr("data2", "min", "data2_min"), Expr("data2", "max", "data2_max") >>

AggSpecs ==
    {<<Expr(c, f, c)>> : c \in DataCols, f \in Fns} \cup {SpecSum, SpecSumMean, SpecMinMax}

---------------------------------------------------------------------------
(* over: a window expression *)

OverExprs == {Expr(c, f, c) : c \in DataCols, f \in Fns}

RECURSIVE Repeat(_, _)
Repeat(v, n) == IF n = 0 THEN <<>> ELSE <<v>> \o Repeat(v, n - 1)

RECURSIVE Over_GroupOrderFrom(_, _, _, _)
Over_GroupOrderFrom(tbl, e, g, j) ==
    IF j > Len(g) THEN <<>>
    ELSE Repeat(Reduce(e.fn, Take(tbl, e.col, g[j].idx)), Len(g[j].idx))
           \o Over_GroupOrderFrom(tbl, e, g, j + 1)

\* Mutation of Over: the values are laid out group after group, not row by row.
Over_GroupOrder(tbl, e, g) == Over_GroupOrderFrom(tbl, e, g, 1)

\* pl.col(c).fn().over('key'): the reduction of each group, written back to
\* the rows of the group.
Over(tbl, e, g) ==
    LET aggs == [j \in 1..Len(g) |-> Reduce(e.fn, Take(tbl, e.col, g[j].idx))]
    IN  [i \in 1..Len(tbl) |->
            aggs[CHOOSE j \in 1..Len(g) : \E n \in 1..Len(g[j].idx) : g[j].idx[n] = i]]

\* df.select(pl.col('key'), <e>.over('key')): the frame of key and e.name.
SelectOver(tbl, e, g) ==
    LET w == Over(tbl, e, g)
    IN  [i \in 1..Len(tbl) |-> ("key" :> tbl[i].key) @@ (e.name :> w[i])]

\* pl.col('data1').mean().over('key').alias('data1meanOverKey')
MeanOverKey == Expr("data1", "mean", "data1meanOverKey")

\* Mutation of WithColumns: the new column is laid out group after group.
WithColumns_Misaligned(tbl, e, g) ==
    LET w == Over_GroupOrder(tbl, e, g)
    IN  [i \in 1..Len(tbl) |-> (e.name :> w[i]) @@ tbl[i]]

\* df.with_columns(<e>.over('key')): a new frame, the rows of tbl each with the
\* column e.name added (or replaced).
WithColumns(tbl, e, g) ==
    LET w == Over(tbl, e, g)
    IN  [i \in 1..Len(tbl) |-> (e.name :> w[i]) @@ tbl[i]]

\* Mutation of FilterAboveMean: >= in place of >.
FilterAboveMean_Inclusive(tbl, g) ==
    LET w == Over(tbl, Expr("data1", "mean", "data1"), g)
        keep == SelectSeq(Indices(tbl), LAMBDA i : ~Less(tbl[i].data1, w[i]))
    IN  [n \in 1..Len(keep) |-> tbl[keep[n]]]

\* df.filter(pl.col('data1') > pl.col('data1').mean().over('key'))
FilterAboveMean(tbl, g) ==
    LET w == Over(tbl, Expr("data1", "mean", "data1"), g)
        keep == SelectSeq(Indices(tbl), LAMBDA i : Less(w[i], tbl[i].data1))
    IN  [n \in 1..Len(keep) |-> tbl[keep[n]]]

\* Mutation of FilterKeyNotA: == in place of !=.
FilterKeyNotA_Inverted(frame) == SelectSeq(frame, LAMBDA r : r.key = "A")

\* .filter(pl.col('key') != "A"), on df or on the frame all() returned.
FilterKeyNotA(frame) == SelectSeq(frame, LAMBDA r : r.key # "A")

---------------------------------------------------------------------------
(* filter and join *)

\* pl.col("data2").mean().alias("mean_value")
SpecMeanValue == << Expr("data2", "mean", "mean_value") >>

\* The literal 0.3 of the filter.
Threshold == F64(3, 10)

\* Mutation of FilterMean: >= in place of >.
FilterMean_Inclusive(frame) == SelectSeq(frame, LAMBDA r : ~Less(r.vals[1], Threshold))

\* .filter(pl.col("mean_value") > 0.3) on the frame agg(SpecMeanValue) returned.
FilterMean(frame) == SelectSeq(frame, LAMBDA r : Less(Threshold, r.vals[1]))

Joined(l, r) ==
    [key |-> l.key, mean_value |-> l.vals[1], data1 |-> r.data1, data2 |-> r.data2]

\* Mutation of Join: a lookup, only the first matching row of right per left row.
Join_FirstMatch(left, right) ==
    LET hit == SelectSeq(Indices(right),
                         LAMBDA i : /\ \E n \in 1..Len(left) : left[n].key = right[i].key
                                    /\ \A x \in 1..(i - 1) : right[x].key # right[i].key)
    IN  [n \in 1..Len(hit) |->
            Joined(CHOOSE l \in {left[x] : x \in 1..Len(left)} : l.key = right[hit[n]].key,
                   right[hit[n]])]

\* left.join(right, on="key"), an inner join: the hash table is built on the
\* frame that is not longer (left, an aggregate of right) and probed with the
\* rows of right in their order, each giving one row per matching left row
\* (the recorded output is B, C, B, C: the order of df).
RECURSIVE Join(_, _)
Join(left, right) ==
    IF Len(right) = 0 THEN <<>>
    ELSE LET r == right[Len(right)]
             m == SelectSeq(left, LAMBDA l : l.key = r.key)
         IN  Join(left, SubSeq(right, 1, Len(right) - 1))
               \o [n \in 1..Len(m) |-> Joined(m[n], r)]

---------------------------------------------------------------------------
Init ==
    /\ df \in Tables
    /\ cell = "df"
    /\ spec = <<>>
    /\ grp = <<>>
    /\ kept = <<>>
    /\ out = <<>>

\* group = df.group_by('key'); group.all()
GroupAll ==
    /\ \E ord \in Orders(KeySet(df)) :
          /\ grp' = GroupBy(df, ord)
          /\ out' = All(df, grp')
    /\ cell' = "all"
    /\ spec' = <<>>
    /\ kept' = <<>>
    /\ UNCHANGED df

\* for name, data in df.group_by("key"): print(name); print(data)
IterGroups ==
    /\ \E ord \in Orders(KeySet(df)) :
          /\ grp' = GroupBy(df, ord)
          /\ out' = Iter(df, grp')
    /\ cell' = "iter"
    /\ spec' = <<>>
    /\ kept' = <<>>
    /\ UNCHANGED df

\* df.group_by('key').agg(...)
AggCell ==
    /\ \E sp \in AggSpecs, ord \in Orders(KeySet(df)) :
          /\ grp' = GroupBy(df, ord)
          /\ out' = Agg(df, grp', sp)
          /\ spec' = sp
    /\ cell' = "agg"
    /\ kept' = <<>>
    /\ UNCHANGED df

\* df.select(pl.col('key'), pl.col('data1').mean().over('key'))
SelectOverCell ==
    /\ \E e \in OverExprs, ord \in Orders(KeySet(df)) :
          /\ grp' = GroupBy(df, ord)
          /\ out' = SelectOver(df, e, grp')
          /\ spec' = <<e>>
    /\ cell' = "over"
    /\ kept' = <<>>
    /\ UNCHANGED df

\* The same select applied to the frame the select returned.
SelectOverAgain ==
    /\ cell = "over"
    /\ \E ord \in Orders(KeySet(out)) :
          /\ grp' = GroupBy(out, ord)
          /\ out' = SelectOver(out, spec[1], grp')
    /\ cell' = "over2"
    /\ UNCHANGED <<df, spec, kept>>

\* df.group_by("key").agg(mean_value).filter(mean_value > 0.3).join(df, on="key")
FilterJoinCell ==
    /\ \E ord \in Orders(KeySet(df)) :
          /\ grp' = GroupBy(df, ord)
          /\ kept' = FilterMean(Agg(df, grp', SpecMeanValue))
          /\ out' = Join(kept', df)
    /\ cell' = "filterjoin"
    /\ spec' = SpecMeanValue
    /\ UNCHANGED df

\* df.group_by('key').all().filter(pl.col('key')!="A")
GroupAllFilterCell ==
    /\ \E ord \in Orders(KeySet(df)) :
          /\ grp' = GroupBy(df, ord)
          /\ out' = FilterKeyNotA(All(df, grp'))
    /\ cell' = "allfilter"
    /\ spec' = <<>>
    /\ kept' = <<>>
    /\ UNCHANGED df

\* df.filter(pl.col('key')!="A").group_by('key').all()
FilterGroupAllCell ==
    /\ \E ord \in Orders(KeySet(FilterKeyNotA(df))) :
          /\ grp' = GroupBy(FilterKeyNotA(df), ord)
          /\ out' = All(FilterKeyNotA(df), grp')
    /\ cell' = "filterall"
    /\ spec' = <<>>
    /\ kept' = <<>>
    /\ UNCHANGED df

\* df.with_columns(pl.col('data1').mean().over('key').alias('data1meanOverKey'))
WithColumnsCell ==
    /\ \E ord \in Orders(KeySet(df)) :
          /\ grp' = GroupBy(df, ord)
          /\ out' = WithColumns(df, MeanOverKey, grp')
    /\ cell' = "withcolumns"
    /\ spec' = <<MeanOverKey>>
    /\ kept' = <<>>
    /\ UNCHANGED df

\* df.filter((pl.col('data1') > pl.col('data1').mean().over('key')))
FilterAboveMeanCell ==
    /\ \E ord \in Orders(KeySet(df)) :
          /\ grp' = GroupBy(df, ord)
          /\ out' = FilterAboveMean(df, grp')
    /\ cell' = "abovemean"
    /\ spec' = <<>>
    /\ kept' = <<>>
    /\ UNCHANGED df

Next ==
    \/ GroupAll
    \/ IterGroups
    \/ AggCell
    \/ SelectOverCell
    \/ SelectOverAgain
    \/ FilterJoinCell
    \/ GroupAllFilterCell
    \/ FilterGroupAllCell
    \/ WithColumnsCell
    \/ FilterAboveMeanCell

Spec == Init /\ [][Next]_vars

---------------------------------------------------------------------------
(* Reference definitions for the properties: what a group and a reduction  *)
(* are, stated on the table alone (by key equality and over sets of row    *)
(* positions), independently of GroupBy, Take and Reduce.                  *)

RowsOfKey(tbl, k) == {i \in 1..Len(tbl) : tbl[i].key = k}

IdxSet(g) == {g.idx[n] : n \in 1..Len(g.idx)}

ColValues(tbl, c, S) == {tbl[i][c] : i \in S}

RECURSIVE RefSum(_, _, _)
RefSum(tbl, c, S) ==
    IF S = {} THEN [dt |-> "ref", num |-> 0, den |-> 1]
    ELSE LET i == CHOOSE x \in S : TRUE
         IN  Add(RefSum(tbl, c, S \ {i}), tbl[i][c])

RefMean(tbl, c, S) ==
    LET s == RefSum(tbl, c, S) IN Num("ref", s.num, s.den * Cardinality(S))

RefReduce(f, tbl, c, S) ==
    CASE f = "sum"   -> RefSum(tbl, c, S)
      [] f = "mean"  -> RefMean(tbl, c, S)
      [] f = "min"   -> CHOOSE v \in ColValues(tbl, c, S) :
                            \A w \in ColValues(tbl, c, S) : ~Less(w, v)
      [] f = "max"   -> CHOOSE v \in ColValues(tbl, c, S) :
                            \A w \in ColValues(tbl, c, S) : ~Less(v, w)
      [] f = "count" -> [dt |-> "ref", num |-> Cardinality(S), den |-> 1]

\* The distinct keys of tbl in the order of their first appearance.
RECURSIVE FirstSeenKeys(_)
FirstSeenKeys(tbl) ==
    IF Len(tbl) = 0 THEN <<>>
    ELSE LET p == FirstSeenKeys(SubSeq(tbl, 1, Len(tbl) - 1))
             k == tbl[Len(tbl)].key
         IN  IF \E j \in 1..Len(p) : p[j] = k THEN p ELSE Append(p, k)

KeysOf(frame) == [j \in 1..Len(frame) |-> frame[j].key]

\* The keys a listing of the groups shows, in its order.
ListedKeys ==
    IF cell = "iter" THEN [j \in 1..Len(out) |-> out[j].name[1]] ELSE KeysOf(out)

RECURSIVE TotalLen(_)
TotalLen(ss) ==
    IF Len(ss) = 0 THEN 0 ELSE Len(ss[Len(ss)]) + TotalLen(SubSeq(ss, 1, Len(ss) - 1))

---------------------------------------------------------------------------
(* C1: the groups of a group_by partition the rows of the table: every row *)
(* position is in exactly one group and occurs there once, the rows of a   *)
(* group all have the group's key, and two groups have different keys; the *)
(* lists that group.all() and the iteration show hold N values in all.     *)
C1_GroupsPartitionRows ==
    cell \in {"all", "iter", "agg", "over", "over2", "filterjoin"} =>
        /\ \A i \in 1..Len(df) :
              Cardinality({j \in 1..Len(grp) : i \in IdxSet(grp[j])}) = 1
        /\ \A j \in 1..Len(grp) :
              /\ IdxSet(grp[j]) \subseteq 1..Len(df)
              /\ Cardinality(IdxSet(grp[j])) = Len(grp[j].idx)
              /\ \A i \in IdxSet(grp[j]) : df[i].key = grp[j].key
        /\ \A j, k \in 1..Len(grp) : j # k => grp[j].key # grp[k].key
        /\ cell = "all" => TotalLen([j \in 1..Len(out) |-> out[j].data1]) = Len(df)
        /\ cell = "iter" => TotalLen([j \in 1..Len(out) |-> out[j].data]) = Len(df)

C1_Witness ==
    /\ cell = "all"
    /\ Len(grp) >= 2
    /\ \E j \in 1..Len(grp) : Len(grp[j].idx) >= 2

(* C2: agg returns one row per distinct key of the table, whatever the     *)
(* number of expressions: as many rows as distinct keys, no key twice.     *)
C2_AggOneRowPerKey ==
    cell = "agg" =>
        /\ Len(out) = Cardinality(KeySet(df))
        /\ {out[j].key : j \in 1..Len(out)} = KeySet(df)
        /\ \A j \in 1..Len(out) : Len(out[j].vals) = Len(spec)

C2_Witness ==
    /\ cell = "agg"
    /\ Len(spec) = 2
    /\ Len(out) >= 2
    /\ Len(df) > Len(out)

(* C3: the window expression returns N values in the row order of the      *)
(* table; the value at row i is the reduction of the column over all rows  *)
(* with row i's key; on the example mean of data1 is 5,7,9,5,7,9.          *)
C3_OverAlignedWithRows ==
    cell = "over" =>
        LET e == spec[1] IN
        /\ Len(out) = Len(df)
        /\ \A i \in 1..Len(df) :
              /\ out[i].key = df[i].key
              /\ SameValue(out[i][e.name],
                           RefReduce(e.fn, df, e.col, RowsOfKey(df, df[i].key)))
        /\ (df = ExampleDf /\ e = Expr("data1", "mean", "data1")) =>
              [i \in 1..6 |-> out[i].data1] =
                  << F64(5, 1), F64(7, 1), F64(9, 1), F64(5, 1), F64(7, 1), F64(9, 1) >>

C3_Witness ==
    /\ cell = "over"
    /\ df = ExampleDf
    /\ spec = << Expr("data1", "mean", "data1") >>
    /\ grp[1].key # "A"

(* C4, as claimed: a listing of the groups (group.all(), the iteration)    *)
(* shows the keys in the order of their first appearance in the table.     *)
C4_FirstSeenOrder ==
    cell \in {"all", "iter"} => ListedKeys = FirstSeenKeys(df)

(* C4, amended: a listing of the groups shows every distinct key of the    *)
(* table exactly once, in some order of the keys (a rearrangement of the   *)
(* first-appearance order, not necessarily that order itself).             *)
C4_SomeOrderOfKeys ==
    cell \in {"all", "iter"} =>
        /\ Len(ListedKeys) = Len(FirstSeenKeys(df))
        /\ \A j \in 1..Len(FirstSeenKeys(df)) :
              Cardinality({n \in 1..Len(ListedKeys) : ListedKeys[n] = FirstSeenKeys(df)[j]}) = 1

C4_Witness ==
    /\ cell \in {"all", "iter"}
    /\ Len(ListedKeys) >= 2
    /\ ListedKeys # FirstSeenKeys(df)

C6_AggCellIsReduction ==
    cell = "agg" =>
        /\ \A j \in 1..Len(out) : \A e \in 1..Len(spec) :
              SameValue(out[j].vals[e],
                        RefReduce(spec[e].fn, df, spec[e].col, RowsOfKey(df, out[j].key)))
        /\ (df = ExampleDf /\ spec = SpecSum) =>
              {<<out[j].key, out[j].vals[1]>> : j \in 1..Len(out)} =
                  {<<"A", I64(10)>>, <<"B", I64(14)>>, <<"C", I64(18)>>}

C6_Witness ==
    /\ cell = "agg"
    /\ df = ExampleDf
    /\ spec = SpecSumMean

(* C7, as claimed: applying the window expression to its own output gives  *)
(* the output again, for sum, mean, min, max and count.                    *)
C7_OverIdempotent ==
    [][cell' = "over2" => out' = out]_vars

(* C7, amended: applying the window expression to its own output gives the *)
(* output again for mean, min, max and count (mean in exact arithmetic);   *)
(* not for sum, which multiplies each value by the size of its group.      *)
C7_OverIdempotentExceptSum ==
    [][(cell' = "over2" /\ spec[1].fn # "sum") => out' = out]_vars

C7_Witness ==
    /\ cell = "over2"
    /\ df = ExampleDf
    /\ spec = << Expr("data1", "mean", "data1") >>

(* C8: the filter on the group mean keeps a row of df exactly when the     *)
(* mean of data2 over the row's whole group exceeds 0.3, so a group stays  *)
(* whole or goes whole, and the kept rows are in the order of df; on the   *)
(* example the 4 rows of keys B and C are kept.                            *)
C8_FilterKeepsPassingGroups ==
    cell = "filterjoin" =>
        LET GroupMean(i) == RefMean(df, "data2", RowsOfKey(df, df[i].key))
            keep == SelectSeq(Indices(df), LAMBDA i : Less(Threshold, GroupMean(i)))
        IN  /\ Len(out) = Len(keep)
            /\ \A n \in 1..Len(keep) :
                  /\ out[n].key = df[keep[n]].key
                  /\ out[n].data1 = df[keep[n]].data1
                  /\ out[n].data2 = df[keep[n]].data2
                  /\ SameValue(out[n].mean_value, GroupMean(keep[n]))
            /\ df = ExampleDf => KeysOf(out) = <<"B", "C", "B", "C">>

C8_Witness ==
    /\ cell = "filterjoin"
    /\ Len(out) >= 2
    /\ Len(out) < Len(df)
    /\ \A n \in 1..Len(out) : out[n].key # df[1].key
    /\ out[1].key = df[Len(df)].key

(* C9: the two results of the group filter agree: the rows the join        *)
(* returns are the rows of the groups the filter retained (the same row    *)
(* positions, each once), and the keys of the returned rows are the keys   *)
(* of the retained groups.                                                 *)
C9_ProjectionsAgree ==
    cell = "filterjoin" =>
        LET keptKeys == {kept[j].key : j \in 1..Len(kept)}
            retained == UNION {IdxSet(grp[j]) : j \in {x \in 1..Len(grp) : grp[x].key \in keptKeys}}
            rows == SelectSeq(Indices(df), LAMBDA i : i \in retained)
        IN  /\ {out[n].key : n \in 1..Len(out)} = keptKeys
            /\ Len(out) = Cardinality(retained)
            /\ [n \in 1..Len(out) |-> [key |-> out[n].key, data1 |-> out[n].data1, data2 |-> out[n].data2]]
                  = [n \in 1..Len(rows) |-> df[rows[n]]]

C9_Witness ==
    /\ cell = "filterjoin"
    /\ Len(kept) >= 1
    /\ Len(kept) < Len(grp)
    /\ Len(out) > Len(kept)

RowSet(frame) == {frame[j] : j \in 1..Len(frame)}

\* The cells whose result has one row per group, and those whose result has
\* the rows of the table in their order.
GroupedCells == {"all", "iter", "agg", "allfilter", "filterall"}

RowOrderCells == {"over", "withcolumns", "abovemean", "filterjoin"}

\* The same call again: the same cell with the same arguments.
Repeated == cell' = cell /\ spec' = spec

(* C13, as claimed: no cell changes df, and running a cell again returns   *)
(* the same result.                                                        *)
C13_RepeatGivesSameResult ==
    [][/\ df' = df
       /\ (Repeated /\ cell \in GroupedCells \cup RowOrderCells) => out' = out]_vars

(* C13, amended: no cell changes df (names, order, row count and values of *)
(* its columns stay as constructed); running a cell again returns the same *)
(* result when the result is in row order (over, with_columns, filter, the *)
(* join) and the same rows, possibly in another order, when the result has *)
(* one row per group (all, the iteration, agg).                            *)
C13_DfUnchangedSameRowsOnRepeat ==
    [][/\ df' = df
       /\ (Repeated /\ cell \in RowOrderCells) => out' = out
       /\ (Repeated /\ cell \in GroupedCells) =>
             (Len(out') = Len(out) /\ RowSet(out') = RowSet(out))]_vars

C13_Witness ==
    /\ cell = "withcolumns"
    /\ df = ExampleDf
    /\ DOMAIN out[1] = {"key", "data1", "data2", "data1meanOverKey"}
    /\ DOMAIN df[1] = {"key", "data1", "data2"}
    /\ KeysOf(grp) # FirstSeenKeys(df)

\* The groups as one scan of the table forms them, one group after another.
ScanGroups(tbl) == GroupBy(tbl, FirstSeenKeys(tbl))

RefList(tbl, c, k) ==
    LET rows == SelectSeq(tbl, LAMBDA r : r.key = k)
    IN  [n \in 1..Len(rows) |-> rows[n][c]]

RefGroupRow(tbl, k) ==
    [key |-> k, data1 |-> RefList(tbl, "data1", k), data2 |-> RefList(tbl, "data2", k)]

(* C17, as claimed: for the predicate key != "A", filtering the rows and   *)
(* then grouping gives the same groups in the same order as grouping and   *)
(* then dropping the groups of the failing key: the second cell shows the  *)
(* frame the first showed.                                                 *)
C17_SameGroupsSameOrder ==
    [][(cell = "allfilter" /\ cell' = "filterall") => out' = out]_vars

(* C17, amended: both ways give the same groups, one per key other than A  *)
(* with the values of that key's rows in table order; the order of the     *)
(* groups is determined in neither and can differ between the two.         *)
C17_SameGroupsEitherWay ==
    cell \in {"allfilter", "filterall"} =>
        /\ Len(out) = Cardinality(KeySet(df) \ {"A"})
        /\ RowSet(out) = {RefGroupRow(df, k) : k \in KeySet(df) \ {"A"}}

C17_Witness ==
    /\ cell = "filterall"
    /\ df = ExampleDf
    /\ KeysOf(out) = <<"C", "B">>

(* C18: in every group the row positions increase strictly, so the rows of *)
(* a group, and of the frame the iteration gives for it, are in the order  *)
(* they have in the table; every group has at least one row.               *)
C18_GroupRowsInTableOrder ==
    cell # "df" =>
        /\ \A j \in 1..Len(grp) :
              /\ Len(grp[j].idx) >= 1
              /\ \A n, m \in 1..Len(grp[j].idx) : n < m => grp[j].idx[n] < grp[j].idx[m]
        /\ cell = "iter" =>
              \A j \in 1..Len(out) :
                 out[j].data = SelectSeq(df, LAMBDA r : r.key = out[j].name[1])
        /\ cell = "all" =>
              \A j \in 1..Len(out) : out[j] = RefGroupRow(df, out[j].key)

C18_Witness ==
    /\ cell = "iter"
    /\ \E j \in 1..Len(grp) :
          /\ Len(grp[j].idx) >= 2
          /\ grp[j].idx[2] > grp[j].idx[1] + 1
          /\ out[j].data[1] # out[j].data[2]

(* C19: keeping the rows whose data1 is above the mean of their group      *)
(* keeps exactly those rows, in table order; it never keeps a whole group: *)
(* every group loses a row, its least value is never kept, and a group of  *)
(* equal values loses every row.                                           *)
C19_AboveMeanDropsFromEveryGroup ==
    cell = "abovemean" =>
        LET GroupMean(i) == RefMean(df, "data1", RowsOfKey(df, df[i].key))
            keep == SelectSeq(Indices(df), LAMBDA i : Less(GroupMean(i), df[i].data1))
            Kept(k) == {n \in 1..Len(out) : out[n].key = k}
        IN  /\ out = [n \in 1..Len(keep) |-> df[keep[n]]]
            /\ \A k \in KeySet(df) :
                  /\ Cardinality(Kept(k)) < Cardinality(RowsOfKey(df, k))
                  /\ \A n \in Kept(k) :
                        Less(RefReduce("min", df, "data1", RowsOfKey(df, k)), out[n].data1)
                  /\ Cardinality(ColValues(df, "data1", RowsOfKey(df, k))) = 1 => Kept(k) = {}

C19_Witness ==
    /\ cell = "abovemean"
    /\ Len(out) >= 1
    /\ \E k \in KeySet(df) : \A n \in 1..Len(out) : out[n].key # k
    /\ out[1] # df[1]

RECURSIVE ColTotal(_, _)
ColTotal(frame, e) ==
    IF Len(frame) = 0 THEN [dt |-> "ref", num |-> 0, den |-> 1]
    ELSE Add(ColTotal(SubSeq(frame, 1, Len(frame) - 1), e), frame[Len(frame)].vals[e])

=============================================================================
